---- MODULE Spec2Model ----
(***************************************************************************)
(* A model of cutr (src/src/lib.rs): the position-list parser parse_pos,   *)
(* the three extractors extract_chars / extract_bytes / extract_fields,    *)
(* and the per-file loop of run.                                           *)
(*                                                                         *)
(* Text of a position specification is a sequence of characters, each a    *)
(* one-character string; the character U+0663 (ARABIC-INDIC DIGIT THREE)   *)
(* is written "U+0663".  A message is a sequence whose literal parts are   *)
(* whole strings and whose formatted parts are characters.                 *)
(* Text of an input line is a sequence of UTF-8 bytes, as a Rust String    *)
(* stores it; a character of a line is a Unicode scalar value (a number).  *)
(***************************************************************************)
EXTENDS Integers, Sequences, FiniteSets, TLC

VARIABLES
    pc,             \* position of the modelled call or of run's loop
    range,          \* parse_pos: the argument `range`
    parsed,         \* parse_pos: the returned Result
    line,           \* extract_chars / extract_bytes: the argument `line`
    record,         \* extract_fields: the argument `record`
    pos_list,       \* the extractors' range list (char_pos/byte_pos/field_pos)
    extracted,      \* the extractors' return value
    mode,           \* run: which of cli.extract.{chars,bytes,fields} is Some
    delimiter,      \* run: cli.delimiter (a scalar value)
    files,          \* run: cli.files, each with what open and the reads yield
    fileIdx,        \* run: index of the file the outer loop is at
    itemIdx,        \* run: number of lines/records read from the open file
    cur,            \* run: the line/record just read, not yet written
    rdr,            \* run: the record reader's delimiter byte (or "none")
    wtr,            \* run: the record writer's delimiter byte (or "none")
    stdout,         \* run: what was written to standard output, in order
    stderr,         \* run: what was written to standard error, in order
    result          \* run: the returned Result ("none" before it returns)

vars == <<pc, range, parsed, line, record, pos_list, extracted, mode, delimiter,
          files, fileIdx, itemIdx, cur, rdr, wtr, stdout, stderr, result>>

parseVars == <<range, parsed>>
extractVars == <<line, record, pos_list, extracted>>
runVars == <<mode, delimiter, files, fileIdx, itemIdx, cur, rdr, wtr, stdout,
             stderr, result>>

----------------------------------------------------------------------------
(* Bounds of the model *)

MaxPieces == 5      \* a position specification is at most this many pieces
MaxLineLen == 3     \* characters in a line
MaxFields == 3      \* fields in a record
MaxRanges == 2      \* ranges in an extractor's range list
MaxPos == 3          \* largest range end in an extractor's range list
MaxFiles == 2       \* input sources of a run
MaxItems == 2       \* lines/records of an input source

(* usize::MAX.  The width of usize is the target's pointer width; the model *)
(* takes the 16-bit target, so that the first unrepresentable number,       *)
(* 65536, is five digits long.                                              *)
UsizeMax == 65535

----------------------------------------------------------------------------
(* Rust values *)

Ok(v) == [ok |-> TRUE, val |-> v]
Err(e) == [ok |-> FALSE, err |-> e]

\* Range<usize>: start..end
Range(s, e) == [start |-> s, end |-> e]

----------------------------------------------------------------------------
(* Characters of a position specification *)

AsciiDigits == {"0", "1", "2", "3", "4", "5", "6", "7", "8", "9"}

\* char::to_digit(10) on an ASCII digit
DigitVal(c) ==
    CASE c = "0" -> 0 [] c = "1" -> 1 [] c = "2" -> 2 [] c = "3" -> 3
      [] c = "4" -> 4 [] c = "5" -> 5 [] c = "6" -> 6 [] c = "7" -> 7
      [] c = "8" -> 8 [] c = "9" -> 9

\* The regex class \d: Unicode is enabled by default in the regex crate, so
\* \d is the general category Nd, of which the ASCII digits are a part.
UnicodeNd == AsciiDigits \cup {"U+0663"}

\* <usize as Display>::fmt: decimal, no sign, no leading zeros
RECURSIVE fmt_usize(_)
fmt_usize(n) ==
    IF n < 10 THEN <<CHOOSE c \in AsciiDigits : DigitVal(c) = n>>
    ELSE fmt_usize(n \div 10) \o <<CHOOSE c \in AsciiDigits : DigitVal(c) = (n % 10)>>

\* usize::from_str_radix(digits, 10) once the sign is stripped: every
\* character must be an ASCII digit and the checked multiply-add must not
\* pass usize::MAX.  -1 stands for the ParseIntError.
RECURSIVE from_str_radix(_, _)
from_str_radix(digits, acc) ==
    IF digits = <<>> THEN acc
    ELSE IF Head(digits) \notin AsciiDigits THEN -1
    ELSE LET next == acc * 10 + DigitVal(Head(digits))
         IN IF next > UsizeMax THEN -1 ELSE from_str_radix(Tail(digits), next)

\* str::parse::<NonZeroUsize>(): empty is an error, one leading '+' is
\* accepted by the integer parser (a lone sign is an error), zero is an error.
parse_NonZeroUsize(input) ==
    LET digits == IF input # <<>> /\ Head(input) = "+" THEN Tail(input) ELSE input
        n == IF digits = <<>> THEN -1 ELSE from_str_radix(digits, 0)
    IN IF n <= 0 THEN Err("ParseIntError") ELSE Ok(n)

\* the closure value_error of parse_index
value_error(input) == <<"illegal list value: \"">> \o input \o <<"\"">>

parse_index(input) ==
    IF input # <<>> /\ Head(input) = "+"
    THEN Err(value_error(input))
    ELSE LET r == parse_NonZeroUsize(input)
         IN IF r.ok THEN Ok(r.val - 1) ELSE Err(value_error(input))

\* Regex ^(\d+)-(\d+)$ : captures[1] and captures[2], or no match.  \d never
\* matches '-', so a match has exactly one '-' with digits on both sides.
range_re_captures(val) ==
    LET dashes == {i \in 1..Len(val) : val[i] = "-"}
    IN IF Cardinality(dashes) = 1
       THEN LET k == CHOOSE i \in dashes : TRUE
                c1 == SubSeq(val, 1, k - 1)
                c2 == SubSeq(val, k + 1, Len(val))
            IN IF /\ c1 # <<>>
                  /\ c2 # <<>>
                  /\ \A i \in 1..Len(c1) : c1[i] \in UnicodeNd
                  /\ \A i \in 1..Len(c2) : c2[i] \in UnicodeNd
               THEN [matched |-> TRUE, c1 |-> c1, c2 |-> c2]
               ELSE [matched |-> FALSE]
       ELSE [matched |-> FALSE]

\* mutant: the message shows the internal zero-based indices
range_order_error_zero_based(n1, n2) ==
    <<"First number in range (">> \o fmt_usize(n1)
        \o <<") must be lower than second number (">> \o fmt_usize(n2)
        \o <<")">>

range_order_error(n1, n2) ==
    <<"First number in range (">> \o fmt_usize(n1 + 1)
        \o <<") must be lower than second number (">> \o fmt_usize(n2 + 1)
        \o <<")">>

\* mutant: a range N1-N2 ends at N2 - 1 (the end is left zero-based)
parse_token_end_exclusive(val) ==
    LET single == parse_index(val)
    IN IF single.ok THEN Ok(Range(single.val, single.val + 1))
       ELSE LET captures == range_re_captures(val)
            IN IF ~captures.matched THEN Err(single.err)
               ELSE LET n1 == parse_index(captures.c1)
                        n2 == parse_index(captures.c2)
                    IN IF ~n1.ok THEN Err(n1.err)
                       ELSE IF ~n2.ok THEN Err(n2.err)
                       ELSE IF n1.val >= n2.val
                            THEN Err(range_order_error(n1.val, n2.val))
                            ELSE Ok(Range(n1.val, n2.val))

\* mutant: a bad bound of a range is reported with the whole token
parse_token_whole_token(val) ==
    LET single == parse_index(val)
    IN IF single.ok THEN Ok(Range(single.val, single.val + 1))
       ELSE LET captures == range_re_captures(val)
            IN IF ~captures.matched THEN Err(single.err)
               ELSE LET n1 == parse_index(captures.c1)
                        n2 == parse_index(captures.c2)
                    IN IF ~n1.ok \/ ~n2.ok THEN Err(single.err)
                       ELSE IF n1.val >= n2.val
                            THEN Err(range_order_error(n1.val, n2.val))
                            ELSE Ok(Range(n1.val, n2.val + 1))

\* the closure mapped over the tokens in parse_pos
parse_token(val) ==
    LET single == parse_index(val)
    IN IF single.ok THEN Ok(Range(single.val, single.val + 1))
       ELSE LET captures == range_re_captures(val)
            IN IF ~captures.matched THEN Err(single.err)
               ELSE LET n1 == parse_index(captures.c1)
                        n2 == parse_index(captures.c2)
                    IN IF ~n1.ok THEN Err(n1.err)
                       ELSE IF ~n2.ok THEN Err(n2.err)
                       ELSE IF n1.val >= n2.val
                            THEN Err(range_order_error(n1.val, n2.val))
                            ELSE Ok(Range(n1.val, n2.val + 1))

\* str::split(','): the pieces between the commas, empty pieces included;
\* always at least one piece
RECURSIVE split(_, _)
split(s, piece) ==
    IF s = <<>> THEN <<piece>>
    ELSE IF Head(s) = "," THEN <<piece>> \o split(Tail(s), <<>>)
    ELSE split(Tail(s), Append(piece, Head(s)))

\* .collect::<Result<Vec<_>, _>>(): the tokens are mapped left to right and
\* the first Err ends the iteration and is the result
RECURSIVE collect(_, _)
collect(toks, acc) ==
    IF toks = <<>> THEN Ok(acc)
    ELSE LET r == parse_token(Head(toks))
         IN IF r.ok THEN collect(Tail(toks), Append(acc, r.val)) ELSE Err(r.err)

parse_pos(s) == collect(split(s, <<>>), <<>>)

----------------------------------------------------------------------------
(* UTF-8: a String is its bytes; chars() decodes them, push() encodes *)

\* char::encode_utf8, as String::push does
encode_utf8(c) ==
    IF c < 128 THEN <<c>>
    ELSE IF c < 2048 THEN <<192 + (c \div 64), 128 + (c % 64)>>
    ELSE IF c < 65536
         THEN <<224 + (c \div 4096), 128 + ((c \div 64) % 64), 128 + (c % 64)>>
         ELSE <<240 + (c \div 262144), 128 + ((c \div 4096) % 64),
                128 + ((c \div 64) % 64), 128 + (c % 64)>>

\* core::str::utf8_char_width: the length a leading byte announces, 0 for a
\* byte that cannot lead
utf8_char_width(b) ==
    IF b < 128 THEN 1
    ELSE IF b \in 194..223 THEN 2
    ELSE IF b \in 224..239 THEN 3
    ELSE IF b \in 240..244 THEN 4
    ELSE 0

\* str::chars on a (valid) str: the scalar values, in order
RECURSIVE chars(_)
chars(s) ==
    IF s = <<>> THEN <<>>
    ELSE LET w == utf8_char_width(s[1])
             c == CASE w = 1 -> s[1]
                    [] w = 2 -> (s[1] - 192) * 64 + (s[2] - 128)
                    [] w = 3 -> (s[1] - 224) * 4096 + (s[2] - 128) * 64 + (s[3] - 128)
                    [] w = 4 -> (s[1] - 240) * 262144 + (s[2] - 128) * 4096
                                    + (s[3] - 128) * 64 + (s[4] - 128)
         IN <<c>> \o chars(SubSeq(s, w + 1, Len(s)))

\* str::bytes: the stored bytes
bytes(s) == s

\* Utf8Chunks::next (core::str::lossy), on a non-empty slice: whether the
\* slice starts with a well-formed character, and the length of that
\* character or of the invalid sequence (the bytes accepted before the
\* first byte that cannot continue the character)
safe_get(b, i) == IF i <= Len(b) THEN b[i] ELSE 0

is_cont(x) == x \in 128..191

utf8_chunk(b) ==
    LET byte == b[1]
        w == utf8_char_width(byte)
        x2 == safe_get(b, 2)
        second3 == \/ byte = 224 /\ x2 \in 160..191
                   \/ byte \in 225..236 /\ x2 \in 128..191
                   \/ byte = 237 /\ x2 \in 128..159
                   \/ byte \in 238..239 /\ x2 \in 128..191
        second4 == \/ byte = 240 /\ x2 \in 144..191
                   \/ byte \in 241..243 /\ x2 \in 128..191
                   \/ byte = 244 /\ x2 \in 128..143
    IN CASE w = 1 -> [valid |-> TRUE, len |-> 1]
         [] w = 2 -> IF is_cont(x2) THEN [valid |-> TRUE, len |-> 2]
                     ELSE [valid |-> FALSE, len |-> 1]
         [] w = 3 -> IF ~second3 THEN [valid |-> FALSE, len |-> 1]
                     ELSE IF ~is_cont(safe_get(b, 3)) THEN [valid |-> FALSE, len |-> 2]
                     ELSE [valid |-> TRUE, len |-> 3]
         [] w = 4 -> IF ~second4 THEN [valid |-> FALSE, len |-> 1]
                     ELSE IF ~is_cont(safe_get(b, 3)) THEN [valid |-> FALSE, len |-> 2]
                     ELSE IF ~is_cont(safe_get(b, 4)) THEN [valid |-> FALSE, len |-> 3]
                     ELSE [valid |-> TRUE, len |-> 4]
         [] OTHER -> [valid |-> FALSE, len |-> 1]

\* char::REPLACEMENT_CHARACTER (U+FFFD), encoded
REPLACEMENT == encode_utf8(65533)

\* mutant: an invalid sequence is dropped, no marker takes its place
RECURSIVE from_utf8_lossy_dropping(_)
from_utf8_lossy_dropping(b) ==
    IF b = <<>> THEN <<>>
    ELSE LET ch == utf8_chunk(b)
             rest == from_utf8_lossy_dropping(SubSeq(b, ch.len + 1, Len(b)))
         IN IF ch.valid THEN SubSeq(b, 1, ch.len) \o rest ELSE rest

\* String::from_utf8_lossy(..).to_string(): every well-formed character is
\* kept, every invalid sequence becomes one U+FFFD
RECURSIVE from_utf8_lossy(_)
from_utf8_lossy(b) ==
    IF b = <<>> THEN <<>>
    ELSE LET ch == utf8_chunk(b)
             rest == from_utf8_lossy(SubSeq(b, ch.len + 1, Len(b)))
         IN IF ch.valid THEN SubSeq(b, 1, ch.len) \o rest ELSE REPLACEMENT \o rest

----------------------------------------------------------------------------
(* Iterator adapters *)

\* Iterator::skip(n): drops items until n are dropped or none is left
RECURSIVE skip(_, _)
skip(it, n) == IF n = 0 \/ it = <<>> THEN it ELSE skip(Tail(it), n - 1)

\* Iterator::take(n): yields items until n are yielded or none is left
RECURSIVE take(_, _)
take(it, n) ==
    IF n = 0 \/ it = <<>> THEN <<>> ELSE <<Head(it)>> \o take(Tail(it), n - 1)

\* String::push for each character of cs, in order
RECURSIVE push_chars(_, _)
push_chars(str, cs) ==
    IF cs = <<>> THEN str ELSE push_chars(str \o encode_utf8(Head(cs)), Tail(cs))

----------------------------------------------------------------------------
(* The extractors.  Each for loop is a recursion over the range list that  *)
(* carries the accumulator; pos.end - pos.start is taken with start < end,  *)
(* which every range list given to the model satisfies.                     *)

\* mutant: take(pos.end) in place of take(pos.end - pos.start)
RECURSIVE chars_loop_take_end(_, _, _)
chars_loop_take_end(ln, char_pos, str) ==
    IF char_pos = <<>> THEN str
    ELSE LET pos == Head(char_pos)
         IN chars_loop_take_end(ln, Tail(char_pos),
                push_chars(str, take(skip(chars(ln), pos.start), pos.end)))

RECURSIVE chars_loop(_, _, _)
chars_loop(ln, char_pos, str) ==
    IF char_pos = <<>> THEN str
    ELSE LET pos == Head(char_pos)
         IN chars_loop(ln, Tail(char_pos),
                push_chars(str, take(skip(chars(ln), pos.start), pos.end - pos.start)))

extract_chars(ln, char_pos) == chars_loop(ln, char_pos, <<>>)

RECURSIVE bytes_loop(_, _, _)
bytes_loop(ln, byte_pos, buf) ==
    IF byte_pos = <<>> THEN buf
    ELSE LET pos == Head(byte_pos)
         IN bytes_loop(ln, Tail(byte_pos),
                buf \o take(skip(bytes(ln), pos.start), pos.end - pos.start))

extract_bytes(ln, byte_pos) == from_utf8_lossy(bytes_loop(ln, byte_pos, <<>>))

\* mutant: a range that reaches past the last field is filled up with
\* empty fields
RECURSIVE fields_loop_padded(_, _, _)
fields_loop_padded(rec, field_pos, fields) ==
    IF field_pos = <<>> THEN fields
    ELSE LET pos == Head(field_pos)
             got == take(skip(rec, pos.start), pos.end - pos.start)
         IN fields_loop_padded(rec, Tail(field_pos),
                fields \o got \o [i \in 1..(pos.end - pos.start - Len(got)) |-> ""])

RECURSIVE fields_loop(_, _, _)
fields_loop(rec, field_pos, fields) ==
    IF field_pos = <<>> THEN fields
    ELSE LET pos == Head(field_pos)
         IN fields_loop(rec, Tail(field_pos),
                fields \o take(skip(rec, pos.start), pos.end - pos.start))

extract_fields(rec, field_pos) == fields_loop(rec, field_pos, <<>>)

----------------------------------------------------------------------------
(* Inputs *)

RECURSIVE Flatten(_)
Flatten(ps) == IF ps = <<>> THEN <<>> ELSE Head(ps) \o Flatten(Tail(ps))

\* A position specification is a concatenation of these pieces: single
\* characters, the largest representable number and the first
\* unrepresentable one.
Pieces ==
    {<<"0">>, <<"1">>, <<"2">>, <<"-">>, <<"+">>, <<"a">>, <<",">>, <<"U+0663">>,
     <<"6", "5", "5", "3", "5">>, <<"6", "5", "5", "3", "6">>}

\* Characters of a line: 'a', U+00E1 (2 bytes), U+20AC (3 bytes),
\* U+1F600 (4 bytes)
LineChars == {97, 225, 8364, 128512}

Lines ==
    {push_chars(<<>>, cs) : cs \in UNION {[1..n -> LineChars] : n \in 0..MaxLineLen}}

FieldValues == {"Captain", "Sham", "12345"}

Records == UNION {[1..n -> FieldValues] : n \in 0..MaxFields}

\* every range has start < end, as every range parse_pos returns
Ranges == {r \in [start : 0..(MaxPos - 1), end : 1..MaxPos] : r.start < r.end}

PositionLists == UNION {[1..n -> Ranges] : n \in 0..MaxRanges}

ParseIdle == range = <<>> /\ parsed = "none"

ExtractIdle == line = <<>> /\ record = <<>> /\ pos_list = <<>> /\ extracted = "none"

RunIdle ==
    /\ mode = "none" /\ delimiter = 9 /\ files = <<>> /\ fileIdx = 0 /\ itemIdx = 0
    /\ cur = "none" /\ rdr = "none" /\ wtr = "none"
    /\ stdout = <<>> /\ stderr = <<>> /\ result = "none"

----------------------------------------------------------------------------
(* parse_pos as a call: the argument, then the returned value *)

InitParse ==
    /\ pc = "parse_pos"
    /\ \E n \in 0..MaxPieces : \E ps \in [1..n -> Pieces] : range = Flatten(ps)
    /\ parsed = "none"
    /\ ExtractIdle
    /\ RunIdle

ParsePos ==
    /\ pc = "parse_pos"
    /\ parsed' = parse_pos(range)
    /\ pc' = "returned"
    /\ UNCHANGED <<range, extractVars, runVars>>

SpecParse == InitParse /\ [][ParsePos]_vars

----------------------------------------------------------------------------
(* The extractors as calls *)

InitLine ==
    /\ pc = "extract"
    /\ line \in Lines
    /\ record = <<>>
    /\ pos_list \in PositionLists
    /\ extracted = "none"
    /\ ParseIdle
    /\ RunIdle

ExtractChars ==
    /\ pc = "extract"
    /\ extracted' = extract_chars(line, pos_list)
    /\ pc' = "extract_chars returned"
    /\ UNCHANGED <<line, record, pos_list, parseVars, runVars>>

ExtractBytes ==
    /\ pc = "extract"
    /\ extracted' = extract_bytes(line, pos_list)
    /\ pc' = "extract_bytes returned"
    /\ UNCHANGED <<line, record, pos_list, parseVars, runVars>>

NextLine == ExtractChars \/ ExtractBytes

SpecLine == InitLine /\ [][NextLine]_vars

InitFields ==
    /\ pc = "extract"
    /\ line = <<>>
    /\ record \in Records
    /\ pos_list \in PositionLists
    /\ extracted = "none"
    /\ ParseIdle
    /\ RunIdle

ExtractFields ==
    /\ pc = "extract"
    /\ extracted' = extract_fields(record, pos_list)
    /\ pc' = "extract_fields returned"
    /\ UNCHANGED <<line, record, pos_list, parseVars, runVars>>

SpecFields == InitFields /\ [][ExtractFields]_vars

----------------------------------------------------------------------------
(* run.  An input source is its name, whether the file system lets it be   *)
(* opened, and what each read of a line/record yields: Ok(content) or      *)
(* Err(e).  The record reader and writer of field mode are collaborators,  *)
(* modelled by the delimiter byte each is built with and by the records    *)
(* passed through them; writes to standard output are taken to succeed.    *)

\* "abc" with U+00E1 for a, U+20AC then 'a', 'a' then U+1F600
SampleLines ==
    <<push_chars(<<>>, <<225, 98, 99>>), push_chars(<<>>, <<8364, 97>>),
      push_chars(<<>>, <<97, 128512>>)>>

SampleRecords ==
    <<<<"Captain", "Sham">>, <<"12345", "Captain">>, <<"Sham", "12345">>>>

\* the content of the k-th line/record met, so that neighbours differ
Content(m, k) ==
    IF m = "fields" THEN SampleRecords[(k % 3) + 1] ELSE SampleLines[(k % 3) + 1]

Names == {"-", "a.txt"}

\* the sources that can stand at place i of cli.files: "-" always opens, a
\* file that cannot be opened has nothing to read, at most one read fails
FileShapes(m, i) ==
    {[name |-> nm, opens |-> o,
      items |-> [j \in 1..n |-> IF j = bad THEN Err(<<"read error", i, j>>)
                                  ELSE Ok(Content(m, i + j))]] :
        nm \in Names, o \in BOOLEAN, n \in 0..MaxItems, bad \in 0..MaxItems}

WellFormedFile(f) ==
    /\ f.name = "-" => f.opens
    /\ ~f.opens => f.items = <<>>

\* the lists of k sources
RECURSIVE FileLists(_, _)
FileLists(m, k) ==
    IF k = 0 THEN {<<>>}
    ELSE {Append(fs, f) : fs \in FileLists(m, k - 1),
                          f \in {g \in FileShapes(m, k) : WellFormedFile(g)}}

\* the delimiters the user may choose: tab (the default), U+00E1, U+20AC
Delimiters == {9, 225, 8364}

\* open(filename): standard input for "-", else File::open
open(f) ==
    IF f.name = "-" THEN Ok(f.items)
    ELSE IF f.opens THEN Ok(f.items)
    ELSE Err("No such file or directory (os error 2)")

\* `cli.delimiter as u8`: a char cast to u8 keeps the low eight bits
as_u8(c) == c % 256

\* what one iteration of the inner loop hands to standard output: println!
\* of the extracted line (the text and a newline), or write_record of the
\* extracted fields through the writer built with delimiter w
Output(m, item, positions, w) ==
    CASE m = "chars" -> extract_chars(item, positions) \o <<10>>
      [] m = "bytes" -> extract_bytes(item, positions) \o <<10>>
      [] m = "fields" -> [fields |-> extract_fields(item, positions), delimiter |-> w]

InitRun ==
    /\ pc = "for filename"
    /\ mode \in {"chars", "bytes", "fields"}
    /\ delimiter \in (IF mode = "fields" THEN Delimiters ELSE {9})
    /\ pos_list = parse_pos(<<"2", ",", "1">>).val
    /\ \E k \in 1..MaxFiles : files \in FileLists(mode, k)
    /\ fileIdx = 1
    /\ itemIdx = 0
    /\ cur = "none"
    /\ rdr = "none"
    /\ wtr = "none"
    /\ stdout = <<>>
    /\ stderr = <<>>
    /\ result = "none"
    /\ line = <<>> /\ record = <<>> /\ extracted = "none"
    /\ ParseIdle

\* mutant: a source that cannot be opened ends the run
OpenFails_aborts ==
    /\ pc = "for filename"
    /\ fileIdx <= Len(files)
    /\ ~open(files[fileIdx]).ok
    /\ stderr' = Append(stderr, <<files[fileIdx].name, ": ", open(files[fileIdx]).err>>)
    /\ result' = Err(open(files[fileIdx]).err)
    /\ pc' = "returned"
    /\ UNCHANGED <<mode, delimiter, files, fileIdx, itemIdx, cur, rdr, wtr, stdout,
                   parseVars, extractVars>>

\* Err(e) => eprintln!("{}: {}", filename, e); the loop goes on
OpenFails ==
    /\ pc = "for filename"
    /\ fileIdx <= Len(files)
    /\ ~open(files[fileIdx]).ok
    /\ stderr' = Append(stderr, <<files[fileIdx].name, ": ", open(files[fileIdx]).err>>)
    /\ fileIdx' = fileIdx + 1
    /\ UNCHANGED <<pc, mode, delimiter, files, itemIdx, cur, rdr, wtr, stdout, result,
                   parseVars, extractVars>>

\* Ok(f): the branch of the mode is entered; field mode builds the reader
\* and the writer
OpenOk ==
    /\ pc = "for filename"
    /\ fileIdx <= Len(files)
    /\ open(files[fileIdx]).ok
    /\ IF mode = "fields"
       THEN rdr' = as_u8(delimiter) /\ wtr' = as_u8(delimiter)
       ELSE UNCHANGED <<rdr, wtr>>
    /\ itemIdx' = 0
    /\ pc' = "read"
    /\ UNCHANGED <<mode, delimiter, files, fileIdx, cur, stdout, stderr, result,
                   parseVars, extractVars>>

\* the iterator yields Some(Ok(line)): `let line = line?`
ReadOk ==
    /\ pc = "read"
    /\ itemIdx < Len(files[fileIdx].items)
    /\ files[fileIdx].items[itemIdx + 1].ok
    /\ cur' = files[fileIdx].items[itemIdx + 1].val
    /\ itemIdx' = itemIdx + 1
    /\ pc' = "write"
    /\ UNCHANGED <<mode, delimiter, files, fileIdx, rdr, wtr, stdout, stderr, result,
                   parseVars, extractVars>>

\* mutant: a failed read is reported like a failed open and the run goes on
\* with the next source
ReadFails_swallowed ==
    /\ pc = "read"
    /\ itemIdx < Len(files[fileIdx].items)
    /\ ~files[fileIdx].items[itemIdx + 1].ok
    /\ stderr' = Append(stderr, <<files[fileIdx].name, ": ",
                                  files[fileIdx].items[itemIdx + 1].err>>)
    /\ fileIdx' = fileIdx + 1
    /\ itemIdx' = 0
    /\ rdr' = "none"
    /\ wtr' = "none"
    /\ pc' = "for filename"
    /\ UNCHANGED <<mode, delimiter, files, cur, stdout, result, parseVars, extractVars>>

\* the iterator yields Some(Err(e)): `?` returns Err(e) from run
ReadFails ==
    /\ pc = "read"
    /\ itemIdx < Len(files[fileIdx].items)
    /\ ~files[fileIdx].items[itemIdx + 1].ok
    /\ result' = Err(files[fileIdx].items[itemIdx + 1].err)
    /\ pc' = "returned"
    /\ UNCHANGED <<mode, delimiter, files, fileIdx, itemIdx, cur, rdr, wtr, stdout,
                   stderr, parseVars, extractVars>>

\* the iterator yields None: the reader and writer are dropped and the outer
\* loop takes the next filename
EndOfFile ==
    /\ pc = "read"
    /\ itemIdx = Len(files[fileIdx].items)
    /\ fileIdx' = fileIdx + 1
    /\ itemIdx' = 0
    /\ rdr' = "none"
    /\ wtr' = "none"
    /\ pc' = "for filename"
    /\ UNCHANGED <<mode, delimiter, files, cur, stdout, stderr, result,
                   parseVars, extractVars>>

\* println!("{}", extract_*(&line, ..)) or wtr.write_record(extract_fields(..))
Write ==
    /\ pc = "write"
    /\ stdout' = Append(stdout, Output(mode, cur, pos_list, wtr))
    /\ cur' = "none"
    /\ pc' = "read"
    /\ UNCHANGED <<mode, delimiter, files, fileIdx, itemIdx, rdr, wtr, stderr, result,
                   parseVars, extractVars>>

\* the outer loop is over: Ok(())
Return ==
    /\ pc = "for filename"
    /\ fileIdx > Len(files)
    /\ result' = Ok("()")
    /\ pc' = "returned"
    /\ UNCHANGED <<mode, delimiter, files, fileIdx, itemIdx, cur, rdr, wtr, stdout,
                   stderr, parseVars, extractVars>>

Next == OpenFails \/ OpenOk \/ ReadOk \/ ReadFails \/ EndOfFile \/ Write \/ Return

Spec == InitRun /\ [][Next]_vars

----------------------------------------------------------------------------
(* Vocabulary of the properties of parse_pos.  A token is the text between *)
(* two commas; a number is a non-empty run of the digits 0..9.             *)

Min(a, b) == IF a < b THEN a ELSE b

CommaAt(s) == {i \in 1..Len(s) : s[i] = ","}

TokenCount(s) == Cardinality(CommaAt(s)) + 1

\* the position of the k-th comma of s; 0 and Len(s) + 1 close the ends
CommaPos(s, k) ==
    IF k = 0 THEN 0
    ELSE IF k > Cardinality(CommaAt(s)) THEN Len(s) + 1
    ELSE CHOOSE i \in CommaAt(s) : Cardinality({j \in CommaAt(s) : j < i}) = k - 1

Token(s, k) ==
    LET from == CommaPos(s, k - 1)
        to == CommaPos(s, k)
    IN [i \in 1..(to - from - 1) |-> s[from + i]]

IsNumber(t) == t # <<>> /\ \A i \in 1..Len(t) : t[i] \in AsciiDigits

\* the number a run of digits denotes, or UsizeMax + 1 for every number
\* above UsizeMax
RECURSIVE NumFrom(_, _)
NumFrom(t, acc) ==
    IF t = <<>> THEN acc
    ELSE NumFrom(Tail(t), Min(acc * 10 + DigitVal(Head(t)), UsizeMax + 1))

Num(t) == NumFrom(t, 0)

\* the digits of a number as one writes it: without its leading zeros
RECURSIVE Written(_)
Written(t) == IF Len(t) > 1 /\ Head(t) = "0" THEN Written(Tail(t)) ELSE t

IsPositive(t) == IsNumber(t) /\ Num(t) >= 1

IsRepresentable(t) == IsPositive(t) /\ Num(t) <= UsizeMax

\* digits-digits
DashAt(t) == {i \in 1..Len(t) : t[i] = "-"}

Left(t) == SubSeq(t, 1, (CHOOSE i \in DashAt(t) : TRUE) - 1)

Right(t) == SubSeq(t, (CHOOSE i \in DashAt(t) : TRUE) + 1, Len(t))

IsDigitsDashDigits(t) ==
    Cardinality(DashAt(t)) = 1 /\ IsNumber(Left(t)) /\ IsNumber(Right(t))

\* the tokens of the grammar: N, or N1-N2 with N1 < N2
IsGrammarToken(t) ==
    \/ IsPositive(t)
    \/ /\ IsDigitsDashDigits(t)
       /\ IsPositive(Left(t)) /\ IsPositive(Right(t))
       /\ Num(Left(t)) < Num(Right(t))

\* the same, every number at most usize::MAX
IsValidToken(t) ==
    \/ IsRepresentable(t)
    \/ /\ IsDigitsDashDigits(t)
       /\ IsRepresentable(Left(t)) /\ IsRepresentable(Right(t))
       /\ Num(Left(t)) < Num(Right(t))

ExpectedRange(t) ==
    IF IsNumber(t) THEN Range(Num(t) - 1, Num(t))
    ELSE Range(Num(Left(t)) - 1, Num(Right(t)))

ExpectedList(s) == [k \in 1..TokenCount(s) |-> ExpectedRange(Token(s, k))]

HasInvalidToken(s) == \E k \in 1..TokenCount(s) : ~IsValidToken(Token(s, k))

\* the leftmost token that is not valid
FirstInvalid(s) ==
    Token(s, CHOOSE k \in 1..TokenCount(s) :
                /\ ~IsValidToken(Token(s, k))
                /\ \A j \in 1..(k - 1) : IsValidToken(Token(s, j)))

IllegalListValue(t) == <<"illegal list value: \"">> \o t \o <<"\"">>

Returned == pc = "returned"

----------------------------------------------------------------------------
(* C1 *)

\* C1 as stated: whenever every token of the specification is a positive
\* integer N or a range N1-N2 with N1 < N2, parse_pos returns Ok with one
\* range per token in token order, [N-1, N) or [N1-1, N2), each with
\* start < end.
C1_AsStated ==
    (Returned /\ \A k \in 1..TokenCount(range) : IsGrammarToken(Token(range, k)))
        => /\ parsed = Ok(ExpectedList(range))
           /\ \A k \in 1..TokenCount(range) : parsed.val[k].start < parsed.val[k].end

\* C1 amended: the same for the specifications whose numbers are all at most
\* usize::MAX; a number above usize::MAX is not accepted.
C1_RepresentableTokensParse ==
    (Returned /\ ~HasInvalidToken(range))
        => /\ parsed = Ok(ExpectedList(range))
           /\ Len(parsed.val) = TokenCount(range)
           /\ \A k \in 1..TokenCount(range) : parsed.val[k].start < parsed.val[k].end

\* a range token followed by a single number that lies before it: the list
\* comes back unsorted
C1_Witness ==
    /\ Returned
    /\ ~HasInvalidToken(range)
    /\ TokenCount(range) = 2
    /\ IsDigitsDashDigits(Token(range, 1))
    /\ parsed.ok
    /\ parsed.val[1].start > parsed.val[2].start

----------------------------------------------------------------------------
(* C2 *)

\* C2: when the leftmost invalid token t is neither a positive number nor of
\* the form digits-digits, parse_pos returns Err (no list) with the message
\* illegal list value: "t", t echoed whole.
C2_MalformedTokenEchoedWhole ==
    (/\ Returned
     /\ HasInvalidToken(range)
     /\ ~IsPositive(FirstInvalid(range))
     /\ ~IsDigitsDashDigits(FirstInvalid(range)))
        => parsed = Err(IllegalListValue(FirstInvalid(range)))

----------------------------------------------------------------------------
(* C3 *)

\* C3: when the leftmost invalid token is a range N1-N2 of two valid
\* positive numbers with N1 >= N2, parse_pos returns Err with the message
\* First number in range (N1) must be lower than second number (N2), the
\* numbers as the user wrote them (one-based), without leading zeros.
C3_RangeOrderMessage ==
    (/\ Returned
     /\ HasInvalidToken(range)
     /\ IsDigitsDashDigits(FirstInvalid(range))
     /\ IsRepresentable(Left(FirstInvalid(range)))
     /\ IsRepresentable(Right(FirstInvalid(range))))
        => parsed = Err(<<"First number in range (">>
                            \o Written(Left(FirstInvalid(range)))
                            \o <<") must be lower than second number (">>
                            \o Written(Right(FirstInvalid(range)))
                            \o <<")">>)

\* after a valid token, a range whose first number is the larger
C3_Witness ==
    /\ Returned
    /\ HasInvalidToken(range)
    /\ TokenCount(range) = 2
    /\ IsValidToken(Token(range, 1))
    /\ IsDigitsDashDigits(Token(range, 2))
    /\ IsRepresentable(Left(Token(range, 2)))
    /\ IsRepresentable(Right(Token(range, 2)))
    /\ Num(Left(Token(range, 2))) > Num(Right(Token(range, 2)))
    /\ ~parsed.ok

----------------------------------------------------------------------------
(* C9 *)

\* the first bound of a digits-digits token that is zero or above usize::MAX
FirstBadBound(t) == IF ~IsRepresentable(Left(t)) THEN Left(t) ELSE Right(t)

\* C9: when the leftmost invalid token is of the form digits-digits and one
\* of its bounds is zero or not representable, parse_pos returns Err with
\* illegal list value quoting the text of the first such bound only, never
\* the range-order message.
C9_BoundsValidatedBeforeOrder ==
    (/\ Returned
     /\ HasInvalidToken(range)
     /\ IsDigitsDashDigits(FirstInvalid(range))
     /\ \/ ~IsRepresentable(Left(FirstInvalid(range)))
        \/ ~IsRepresentable(Right(FirstInvalid(range))))
        => parsed = Err(IllegalListValue(FirstBadBound(FirstInvalid(range))))

\* "N-0": the second bound is the bad one and the order is wrong too
C9_Witness ==
    /\ Returned
    /\ HasInvalidToken(range)
    /\ IsDigitsDashDigits(FirstInvalid(range))
    /\ IsRepresentable(Left(FirstInvalid(range)))
    /\ Num(Right(FirstInvalid(range))) = 0
    /\ parsed = Err(IllegalListValue(Right(FirstInvalid(range))))

----------------------------------------------------------------------------
(* Vocabulary of the properties of the extractors *)

\* the items of s at the indices r.start .. min(r.end, Len(s)) - 1 (zero-based)
Slice(s, r) ==
    LET lo == Min(r.start, Len(s))
        hi == Min(r.end, Len(s))
    IN [i \in 1..(hi - lo) |-> s[lo + i]]

\* the slices of the ranges, concatenated in the order of the list
RECURSIVE Selected(_, _)
Selected(s, ps) ==
    IF ps = <<>> THEN <<>> ELSE Slice(s, Head(ps)) \o Selected(s, Tail(ps))

RECURSIVE SumOfLengths(_)
SumOfLengths(ps) ==
    IF ps = <<>> THEN 0 ELSE (Head(ps).end - Head(ps).start) + SumOfLengths(Tail(ps))

IsScalarValue(c) == c \in 0..55295 \/ c \in 57344..1114111

\* the number the first w bytes of b denote when read as one character of
\* w bytes
HeadValue(b, w) ==
    CASE w = 1 -> b[1]
      [] w = 2 -> (b[1] - 192) * 64 + (b[2] - 128)
      [] w = 3 -> (b[1] - 224) * 4096 + (b[2] - 128) * 64 + (b[3] - 128)
      [] w = 4 -> (b[1] - 240) * 262144 + (b[2] - 128) * 4096
                      + (b[3] - 128) * 64 + (b[4] - 128)

\* the first w bytes of b are the encoding of a character
StartsWithChar(b, w) ==
    /\ w <= Len(b)
    /\ IsScalarValue(HeadValue(b, w))
    /\ encode_utf8(HeadValue(b, w)) = SubSeq(b, 1, w)

\* b is the encoding of a sequence of characters
RECURSIVE IsEncodedText(_)
IsEncodedText(b) ==
    \/ b = <<>>
    \/ \E w \in 1..4 : StartsWithChar(b, w) /\ IsEncodedText(SubSeq(b, w + 1, Len(b)))

\* the characters that stand encoded whole in b, in order; the bytes that
\* belong to no whole character are passed over
RECURSIVE WholeChars(_)
WholeChars(b) ==
    IF b = <<>> THEN <<>>
    ELSE IF \E w \in 1..4 : StartsWithChar(b, w)
    THEN LET w == CHOOSE v \in 1..4 : StartsWithChar(b, v)
         IN <<HeadValue(b, w)>> \o WholeChars(SubSeq(b, w + 1, Len(b)))
    ELSE WholeChars(Tail(b))

RECURSIVE Without(_, _)
Without(cs, c) ==
    IF cs = <<>> THEN <<>>
    ELSE IF Head(cs) = c THEN Without(Tail(cs), c)
    ELSE <<Head(cs)>> \o Without(Tail(cs), c)

----------------------------------------------------------------------------
(* C4 *)

\* C4: extract_chars returns the line's characters at the indices
\* start .. min(end, character count) - 1 of each range, concatenated in the
\* order of the list, and nothing else.
C4_CharsSelectedInListOrder ==
    pc = "extract_chars returned"
        => /\ IsEncodedText(extracted)
           /\ chars(extracted) = Selected(chars(line), pos_list)

\* two ranges out of order over a line with a multi-byte character, the
\* first range reaching past the end of the line
C4_Witness ==
    /\ pc = "extract_chars returned"
    /\ Len(pos_list) = 2
    /\ pos_list[1].start > pos_list[2].start
    /\ pos_list[1].start < Len(chars(line))
    /\ pos_list[1].end > Len(chars(line))
    /\ Len(line) > Len(chars(line))
    /\ Len(chars(extracted)) = 2

----------------------------------------------------------------------------
(* C5 *)

\* C5: extract_fields returns the fields at the indices
\* start .. min(end, field count) - 1 of each range, in the order of the
\* list, each unchanged; they are at most as many as the sum of the range
\* lengths, and fewer when a range reaches past the last field.
C5_FieldsSelectedInListOrder ==
    pc = "extract_fields returned"
        => /\ extracted = Selected(record, pos_list)
           /\ Len(extracted) <= SumOfLengths(pos_list)
           /\ (\E k \in 1..Len(pos_list) : pos_list[k].end > Len(record))
                 => Len(extracted) < SumOfLengths(pos_list)

\* a range that is cut short and a range wholly inside the record
C5_Witness ==
    /\ pc = "extract_fields returned"
    /\ Len(pos_list) = 2
    /\ pos_list[1].start < Len(record)
    /\ pos_list[1].end > Len(record)
    /\ pos_list[2].end <= Len(record)
    /\ Len(extracted) = 2

----------------------------------------------------------------------------
(* C6 *)

\* C6: extract_bytes returns a text (it does not fail) that is the selected
\* bytes themselves exactly when these are a valid encoding; otherwise the
\* characters encoded whole among the selected bytes are kept in order and
\* replacement markers stand for the rest.
C6_BytesSelectedThenLossy ==
    pc = "extract_bytes returned"
        => LET buf == Selected(line, pos_list)
           IN /\ IsEncodedText(extracted)
              /\ (extracted = buf) <=> IsEncodedText(buf)
              /\ Without(chars(extracted), 65533) = Without(WholeChars(buf), 65533)
              /\ ~IsEncodedText(buf) => \E i \in 1..Len(chars(extracted)) :
                                            chars(extracted)[i] = 65533

\* two ranges, the first splitting a multi-byte character, the second
\* selecting a whole character
C6_Witness ==
    /\ pc = "extract_bytes returned"
    /\ Len(pos_list) = 2
    /\ ~IsEncodedText(Slice(line, pos_list[1]))
    /\ Slice(line, pos_list[2]) # <<>>
    /\ IsEncodedText(Slice(line, pos_list[2]))
    /\ Len(chars(extracted)) = 2
    /\ chars(extracted)[1] = 65533
    /\ chars(extracted)[2] # 65533

----------------------------------------------------------------------------
(* Vocabulary of the properties of run *)

CanOpen(f) == open(f).ok

\* no read of a source that opens fails
NoReadFails ==
    \A i \in 1..Len(files) :
        CanOpen(files[i]) => \A j \in 1..Len(files[i].items) : files[i].items[j].ok

\* the output line (with its newline) or the output record of an input
\* line/record
Expect(item) ==
    CASE mode = "chars" -> extract_chars(item, pos_list) \o <<10>>
      [] mode = "bytes" -> extract_bytes(item, pos_list) \o <<10>>
      [] mode = "fields" -> extract_fields(item, pos_list)

\* what was written, without the writer's delimiter
WrittenOutputs == [k \in 1..Len(stdout) |-> IF mode = "fields" THEN stdout[k].fields
                                          ELSE stdout[k]]

\* the outputs of the first k lines/records of a source
FirstOutputs(f, k) == [j \in 1..k |-> Expect(f.items[j].val)]

\* the outputs of the first n sources, all read to their ends
RECURSIVE OutputsOfFirst(_)
OutputsOfFirst(n) ==
    IF n = 0 THEN <<>>
    ELSE OutputsOfFirst(n - 1)
            \o (IF CanOpen(files[n]) THEN FirstOutputs(files[n], Len(files[n].items))
                ELSE <<>>)

\* the diagnostics of the first n sources: one per source that cannot be
\* opened
RECURSIVE DiagnosticsOfFirst(_)
DiagnosticsOfFirst(n) ==
    IF n = 0 THEN <<>>
    ELSE DiagnosticsOfFirst(n - 1)
            \o (IF CanOpen(files[n]) THEN <<>>
                ELSE <<<<files[n].name, ": ", open(files[n]).err>>>>)

\* the first source one of whose reads fails, and the first such read
FailingFile ==
    CHOOSE i \in 1..Len(files) :
        /\ CanOpen(files[i]) /\ \E j \in 1..Len(files[i].items) : ~files[i].items[j].ok
        /\ \A h \in 1..(i - 1) :
              CanOpen(files[h]) => \A j \in 1..Len(files[h].items) : files[h].items[j].ok

FailingItem ==
    CHOOSE j \in 1..Len(files[FailingFile].items) :
        /\ ~files[FailingFile].items[j].ok
        /\ \A h \in 1..(j - 1) : files[FailingFile].items[h].ok

----------------------------------------------------------------------------
(* C7 *)

----------------------------------------------------------------------------
(* C8 *)

\* C8: when a read fails, run returns that first error; what was written
\* before stays, nothing of the failing source's later lines is written, and
\* no later source is opened.
C8_ReadErrorEndsRun ==
    (pc = "returned" /\ ~NoReadFails)
        => /\ result = Err(files[FailingFile].items[FailingItem].err)
           /\ fileIdx = FailingFile
           /\ WrittenOutputs = OutputsOfFirst(FailingFile - 1)
                                \o FirstOutputs(files[FailingFile], FailingItem - 1)
           /\ stderr = DiagnosticsOfFirst(FailingFile - 1)

\* the second read of the first source fails, a line follows it, and a
\* second source that opens and has lines is never reached
C8_Witness ==
    /\ pc = "returned"
    /\ Len(files) = 2
    /\ Len(files[1].items) = 2
    /\ files[1].items[1].ok
    /\ ~files[1].items[2].ok
    /\ CanOpen(files[2])
    /\ Len(files[2].items) > 0
    /\ ~result.ok
    /\ Len(stdout) = 1

----------------------------------------------------------------------------
(* C10 *)

\* C10: in field mode the record reader and the record writer are built
\* with the same delimiter, and it is the character the user chose.
C10_DelimiterIsChosenCharacter ==
    (mode = "fields" /\ pc \in {"read", "write"})
        => rdr = wtr /\ rdr = delimiter

====
